---------------------------- MODULE Spec2Model ----------------------------
(***************************************************************************)
(* A model of the binomial-heap priority queue: the node engine of         *)
(* src/src/node.rs (merge, link, coalesce, remove_max, push, append, peek, *)
(* pop and the two traversals) and the BinomialHeap facade of              *)
(* src/src/lib.rs.                                                         *)
(*                                                                         *)
(* An Option<Box<Node<T>>> is a sequence of length 0 (None) or 1           *)
(* (Some(node)); a node is the record [item, order, next, child] of the    *)
(* struct.  Boxes are owned values, so a list or a tree is a nested value  *)
(* and mem::swap of two boxes exchanges two values.                        *)
(***************************************************************************)
EXTENDS Integers, Sequences, FiniteSets

\* Bounds of the model.
MaxItem == 3
MaxLen == 4
MaxPushes == 4
MaxSort == 7
MaxShape == 6
MaxNodes == 7

Items == 1..MaxItem
Heaps == {1, 2}

VARIABLES
    heaps,    \* heaps[h]: the BinomialHeap h, [root, len]
    trav,     \* the live traversal (Iter or Drain), if any
    op,       \* ghost: the last operation called, [name, h, item]
    ret,      \* ghost: what the last operation returned (an Option)
    pre,      \* ghost: content, len and orders of each heap before the last call
    fault,    \* the panic raised so far, "" when none
    cnt,      \* ghost: per-heap counters of pushes, successful pops and moves
    phase,    \* ghost: position of the push-all-then-pop-all run
    pushed,   \* ghost: the items pushed by the push-all-then-pop-all run
    popped,   \* ghost: the items popped by the push-all-then-pop-all run
    loop      \* the loop a running call is in, with its local variables

vars == <<heaps, trav, op, ret, pre, fault, cnt, phase, pushed, popped, loop>>

----------------------------------------------------------------------------
\* Option<_>

None == <<>>
Some(x) == <<x>>

----------------------------------------------------------------------------
\* node.rs: the node engine

\* Node { item, order: 0, next: None, child: None }
Node(item) == [item |-> item, order |-> 0, next |-> None, child |-> None]

\* merge(a, b): the loop over the slot a, with b the list still to merge in.
\* mem::swap(a_, &mut b) exchanges the two boxes, that is the two lists.
RECURSIVE merge(_, _)
merge(a, b) ==
    LET swap == a.order > b.order
        a_ == IF swap THEN b ELSE a
        b_ == IF swap THEN a ELSE b
    IN  IF a_.next = None
        THEN [a_ EXCEPT !.next = Some(b_)]
        ELSE [a_ EXCEPT !.next = Some(merge(a_.next[1], b_))]

\* link with its arguments taken the wrong way round: a goes under b.
link_under(a, b) ==
    [b EXCEPT !.next = a.next,
              !.child = Some([a EXCEPT !.next = b.child]),
              !.order = b.order + 1]

\* link without a.order += 1.
link_noorder(a, b) == [a EXCEPT !.child = Some([b EXCEPT !.next = a.child])]

\* link(a, b): b becomes the first child of a.
link(a, b) ==
    [a EXCEPT !.child = Some([b EXCEPT !.next = a.child]),
              !.order = a.order + 1]

\* coalesce's case selection without the test of the two orders
CaseA_noorder(a, b) ==
    b.next # None /\ b.next[1].order = b.order

\* The case selection of coalesce at the slot a with successor b.
CaseA(a, b) ==
    \/ a.order # b.order
    \/ (b.next # None /\ b.next[1].order = b.order)

\* coalesce with Case::C's mem::swap left out: the old a_ stays on top of the
\* greater b.
RECURSIVE coalesce_noswap(_)
coalesce_noswap(a) ==
    IF a.next = None THEN a
    ELSE LET b == a.next[1] IN
         IF CaseA(a, b) THEN
             [a EXCEPT !.next = Some(coalesce_noswap(b))]
         ELSE IF a.item >= b.item THEN
             LET a2 == link([a EXCEPT !.next = b.next], [b EXCEPT !.next = None])
             IN  IF a2.next = None THEN a2
                 ELSE [a2 EXCEPT !.next = Some(coalesce_noswap(a2.next[1]))]
         ELSE
             coalesce_noswap(link([a EXCEPT !.next = b.next],
                                  [b EXCEPT !.next = None]))

\* coalesce(a): the loop over the slot a.
RECURSIVE coalesce(_)
coalesce(a) ==
    IF a.next = None THEN a
    ELSE LET b == a.next[1] IN
         IF CaseA(a, b) THEN
             \* Case::A: a = a_.next
             [a EXCEPT !.next = Some(coalesce(b))]
         ELSE IF a.item >= b.item THEN
             \* Case::B: b is taken out and linked under a_; the loop goes on
             \* at a_.next
             LET a2 == link([a EXCEPT !.next = b.next], [b EXCEPT !.next = None])
             IN  IF a2.next = None THEN a2
                 ELSE [a2 EXCEPT !.next = Some(coalesce(a2.next[1]))]
         ELSE
             \* Case::C: the boxes of a_ and b are exchanged, the old a_ is
             \* linked under the new one; the loop goes on at a_
             coalesce(link(b, [a EXCEPT !.next = None]))

\* append(root, other)
append(root, other) ==
    IF other = None THEN root ELSE coalesce(merge(root, other[1]))

\* push(root, item): the new value of *root
push(root, item) ==
    IF root = None THEN Some(Node(item))
    ELSE Some(append(root[1], Some(Node(item))))

\* peek's loop with the comparison turned round: it keeps the least root.
RECURSIVE peekLoop_min(_, _)
peekLoop_min(a, max) ==
    IF a = None THEN max.item
    ELSE LET b == a[1] IN
         peekLoop_min(b.next, IF b.item < max.item THEN b ELSE max)

\* The while loop of peek: a is the link looked at, max the greatest so far.
RECURSIVE peekLoop(_, _)
peekLoop(a, max) ==
    IF a = None THEN max.item
    ELSE LET b == a[1] IN
         peekLoop(b.next, IF b.item > max.item THEN b ELSE max)

\* peek(root)
peek(root) ==
    IF root = None THEN None ELSE Some(peekLoop(root[1].next, root[1]))

\* The loop of remove_max: a is the slot looked at, max the detached node.
\* The result is the final max and the new content of the slot.
RECURSIVE removeLoop(_, _)
removeLoop(a, max) ==
    IF a = None THEN [max |-> max, rest |-> None]
    ELSE LET b == a[1] IN
         IF b.item > max.item THEN
             \* max.next = b.next.take(); mem::swap(&mut max, b)
             LET r == removeLoop(b.next, [b EXCEPT !.next = None])
             IN  [max |-> r.max, rest |-> Some([max EXCEPT !.next = r.rest])]
         ELSE
             LET r == removeLoop(b.next, max)
             IN  [max |-> r.max, rest |-> Some([b EXCEPT !.next = r.rest])]

\* remove_max(a): [max: the Option returned, rest: the new value of *a]
remove_max(a) ==
    IF a = None THEN [max |-> None, rest |-> None]
    ELSE LET r == removeLoop(a[1].next, [a[1] EXCEPT !.next = None])
         IN  [max |-> Some(r.max), rest |-> r.rest]

\* pop that forgets the children of the node it removed.
pop_dropchild(root, len) ==
    LET r == remove_max(root) IN
    IF r.max = None THEN [root |-> r.rest, len |-> len, item |-> None]
    ELSE [root |-> r.rest, len |-> len - 1, item |-> Some(r.max[1].item)]

\* pop(root, len): [root, len: the new values, item: the Option returned]
pop(root, len) ==
    LET r == remove_max(root) IN
    IF r.max = None THEN [root |-> r.rest, len |-> len, item |-> None]
    ELSE LET max == r.max[1] IN
         [root |-> IF r.rest = None THEN max.child
                   ELSE Some(append(r.rest[1], max.child)),
          len  |-> len - 1,
          item |-> Some(max.item)]

\* iter(root, len) and into_iter(root, len): the stack holds the root, if any.
\* Both start with debug_assert!(root.is_some() ^ (len == 0)).
iter_assert(root, len) == (root # None) # (len = 0)
iter(root, len) == [nodes |-> root, len |-> len]
into_iter(root, len) == [nodes |-> root, len |-> len]

\* A traversal step that pushes the sibling only.
Pushed_nochild(nodes, node) == SubSeq(nodes, 1, Len(nodes) - 1) \o node.next

\* The stack after a node was popped from it: next is pushed, then child.
Pushed(nodes, node) ==
    SubSeq(nodes, 1, Len(nodes) - 1) \o node.next \o node.child

\* Iter::next: [iter: the new value of *self, item: the Option returned]
Iter_next(self) ==
    IF self.nodes = <<>> THEN [iter |-> self, item |-> None]
    ELSE LET node == self.nodes[Len(self.nodes)] IN
         [iter |-> [nodes |-> Pushed(self.nodes, node), len |-> self.len - 1],
          item |-> Some(node.item)]

\* IntoIter::next with self.len -= 1 outside the map: it counts down on an
\* empty stack too.
IntoIter_next_underflow(self) ==
    IF self.nodes = <<>>
    THEN [iter |-> [nodes |-> <<>>, len |-> self.len - 1], item |-> None]
    ELSE LET node == self.nodes[Len(self.nodes)] IN
         [iter |-> [nodes |-> Pushed(self.nodes, node), len |-> self.len - 1],
          item |-> Some(node.item)]

\* IntoIter::next, which Drain::next calls
IntoIter_next(self) ==
    IF self.nodes = <<>> THEN [iter |-> self, item |-> None]
    ELSE LET node == self.nodes[Len(self.nodes)] IN
         [iter |-> [nodes |-> Pushed(self.nodes, node), len |-> self.len - 1],
          item |-> Some(node.item)]

----------------------------------------------------------------------------
\* lib.rs: the BinomialHeap facade

\* BinomialHeap::new
new == [root |-> None, len |-> 0]

is_empty(self) == self.root = None
heap_len(self) == self.len

\* BinomialHeap::peek
heap_peek(self) == peek(self.root)

\* BinomialHeap::push without self.len += 1.
heap_push_nolen(self, item) == [root |-> push(self.root, item), len |-> self.len]

\* BinomialHeap::push: the new value of *self
heap_push(self, item) == [root |-> push(self.root, item), len |-> self.len + 1]

\* BinomialHeap::append without self.len += ...
heap_append_nolen(self, other) ==
    IF self.root = None THEN [self |-> other, other |-> self]
    ELSE [self  |-> [root |-> Some(append(self.root[1], other.root)),
                     len  |-> self.len],
          other |-> [root |-> None, len |-> 0]]

\* BinomialHeap::append: the new values of *self and *other
heap_append(self, other) ==
    IF self.root = None THEN [self |-> other, other |-> self]
    ELSE [self  |-> [root |-> Some(append(self.root[1], other.root)),
                     len  |-> self.len + other.len],
          other |-> [root |-> None, len |-> 0]]

\* BinomialHeap::pop: [heap: the new value of *self, item: the Option returned]
heap_pop(self) ==
    LET r == pop(self.root, self.len)
    IN  [heap |-> [root |-> r.root, len |-> r.len], item |-> r.item]

\* push_pop that pops before it pushes.
push_pop_popfirst(self, item) ==
    LET r == heap_pop(self)
    IN  [heap |-> heap_push(r.heap, item), item |-> r.item, panic |-> r.item = None]

\* BinomialHeap::push_pop; panic is expect("heap was empty") failing
push_pop(self, item) ==
    LET r == heap_pop(heap_push(self, item))
    IN  [heap |-> r.heap, item |-> r.item, panic |-> r.item = None]

\* replace that pushes before it pops.
replace_pushfirst(self, item) ==
    LET r == heap_pop(heap_push(self, item))
    IN  [heap |-> r.heap, item |-> r.item]

\* BinomialHeap::replace
replace(self, item) ==
    LET r == heap_pop(self)
    IN  [heap |-> heap_push(r.heap, item), item |-> r.item]

\* clear that resets the root and keeps len.
clear_keeplen(self) == [root |-> None, len |-> self.len]

\* BinomialHeap::clear: the new value of *self
clear(self) == new

\* drain that leaves the heap as it is until the Drain is consumed.
drain_lazy(self) == [heap |-> self, iter |-> into_iter(self.root, self.len)]

\* BinomialHeap::drain: [heap: the new value of *self, iter: the IntoIter]
drain(self) == [heap |-> new, iter |-> into_iter(self.root, self.len)]

----------------------------------------------------------------------------
\* Multisets of items, as functions from Items to counts

\* The items of the list o and of everything below it, in some order
RECURSIVE Flatten(_)
Flatten(o) ==
    IF o = None THEN <<>>
    ELSE <<o[1].item>> \o Flatten(o[1].child) \o Flatten(o[1].next)

Cnt(seq) == [i \in Items |-> Cardinality({k \in DOMAIN seq : seq[k] = i})]
ZeroCnt == [i \in Items |-> 0]
Content(root) == Cnt(Flatten(root))
Plus(c, d) == [i \in Items |-> c[i] + d[i]]
Minus(c, d) == [i \in Items |-> c[i] - d[i]]
One(x) == [i \in Items |-> IF i = x THEN 1 ELSE 0]
RECURSIVE SumTo(_, _)
SumTo(c, n) == IF n = 0 THEN 0 ELSE c[n] + SumTo(c, n - 1)
Size(c) == SumTo(c, MaxItem)
MaxOf(c) == CHOOSE i \in Items : c[i] > 0 /\ \A j \in Items : c[j] > 0 => j <= i

\* The items held by the nodes on a traversal's stack and below them
RECURSIVE StackItems(_)
StackItems(nodes) ==
    IF nodes = <<>> THEN <<>>
    ELSE Flatten(Some(Head(nodes))) \o StackItems(Tail(nodes))

\* A multiset sorted in descending order
RECURSIVE SortDesc(_)
SortDesc(c) ==
    IF Size(c) = 0 THEN <<>>
    ELSE <<MaxOf(c)>> \o SortDesc(Minus(c, One(MaxOf(c))))

\* No call is running: every loop of merge, coalesce and remove_max has
\* returned.  steps counts the iterations of the last call.
NoLoop ==
    [pc |-> "idle", h |-> 0, front |-> <<>>, a |-> None, b |-> None,
     max |-> None, want |-> <<>>, steps |-> 0]

----------------------------------------------------------------------------
\* The state machine: the calls a program makes on two heaps

NoTrav == [kind |-> "none", h |-> 0, nodes |-> <<>>, len |-> 0,
           src |-> ZeroCnt, out |-> ZeroCnt, len0 |-> 0]

\* The orders of the trees of a root list, head first
RECURSIVE Orders(_)
Orders(o) == IF o = None THEN <<>> ELSE <<o[1].order>> \o Orders(o[1].next)

\* Content, len and root-list orders of every heap
Abs(hs) ==
    [h \in Heaps |-> [items |-> Content(hs[h].root), len |-> hs[h].len,
                      orders |-> Orders(hs[h].root)]]

TotalLen == heaps[1].len + heaps[2].len

\* No traversal borrows a heap
Idle == trav.kind = "none"

Init ==
    /\ heaps = [h \in Heaps |-> new]
    /\ trav = NoTrav
    /\ op = [name |-> "new", h |-> 0, item |-> 0]
    /\ ret = None
    /\ pre = Abs([h \in Heaps |-> new])
    /\ fault = ""
    /\ cnt = [h \in Heaps |-> [pushes |-> 0, pops |-> 0, moved |-> 0]]
    /\ phase = "push"
    /\ pushed = ZeroCnt
    /\ popped = <<>>
    /\ loop = NoLoop

\* A call that returned: the heaps after it, what it was and what it returned
Called(name, h, item, hs, r) ==
    /\ heaps' = hs
    /\ op' = [name |-> name, h |-> h, item |-> item]
    /\ ret' = r
    /\ pre' = Abs(heaps)

DoPush(h, x) ==
    /\ Idle
    /\ Called("push", h, x, [heaps EXCEPT ![h] = heap_push(heaps[h], x)], None)
    /\ UNCHANGED <<trav, fault>>

DoPop(h) ==
    /\ Idle
    /\ LET r == heap_pop(heaps[h])
       IN  Called("pop", h, 0, [heaps EXCEPT ![h] = r.heap], r.item)
    /\ UNCHANGED <<trav, fault>>

DoPeek(h) ==
    /\ Idle
    /\ Called("peek", h, 0, heaps, heap_peek(heaps[h]))
    /\ UNCHANGED <<trav, fault>>

DoAppend(h, g) ==
    /\ Idle
    /\ h # g
    /\ LET r == heap_append(heaps[h], heaps[g])
       IN  Called("append", h, 0, [heaps EXCEPT ![h] = r.self, ![g] = r.other], None)
    /\ UNCHANGED <<trav, fault>>

DoPushPop(h, x) ==
    /\ Idle
    /\ LET r == push_pop(heaps[h], x) IN
       /\ Called("push_pop", h, x, [heaps EXCEPT ![h] = r.heap], r.item)
       /\ fault' = IF r.panic THEN "heap was empty" ELSE fault
    /\ UNCHANGED trav

DoReplace(h, x) ==
    /\ Idle
    /\ LET r == replace(heaps[h], x)
       IN  Called("replace", h, x, [heaps EXCEPT ![h] = r.heap], r.item)
    /\ UNCHANGED <<trav, fault>>

DoClear(h) ==
    /\ Idle
    /\ Called("clear", h, 0, [heaps EXCEPT ![h] = clear(heaps[h])], None)
    /\ UNCHANGED <<trav, fault>>

\* heap.drain(): the heap is emptied and mutably borrowed by the Drain
DoDrain(h) ==
    /\ Idle
    /\ LET r == drain(heaps[h]) IN
       /\ Called("drain", h, 0, [heaps EXCEPT ![h] = r.heap], None)
       /\ trav' = [kind |-> "drain", h |-> h, nodes |-> r.iter.nodes,
                   len |-> r.iter.len, src |-> Content(heaps[h].root),
                   out |-> ZeroCnt, len0 |-> heaps[h].len]
       /\ fault' = IF iter_assert(heaps[h].root, heaps[h].len) THEN fault
                   ELSE "debug_assert"
    
\* heap.iter(): the heap is borrowed by the Iter
DoIter(h) ==
    /\ Idle
    /\ LET r == iter(heaps[h].root, heaps[h].len) IN
       /\ Called("iter", h, 0, heaps, None)
       /\ trav' = [kind |-> "iter", h |-> h, nodes |-> r.nodes,
                   len |-> r.len, src |-> Content(heaps[h].root),
                   out |-> ZeroCnt, len0 |-> heaps[h].len]
       /\ fault' = IF iter_assert(heaps[h].root, heaps[h].len) THEN fault
                   ELSE "debug_assert"

\* next() on the live traversal
DoNext ==
    /\ ~Idle
    /\ LET self == [nodes |-> trav.nodes, len |-> trav.len]
           r == IF trav.kind = "iter" THEN Iter_next(self) ELSE IntoIter_next(self)
       IN  /\ trav' = [trav EXCEPT !.nodes = r.iter.nodes, !.len = r.iter.len,
                                   !.out = IF r.item = None THEN @
                                           ELSE Plus(@, One(r.item[1]))]
           /\ op' = [name |-> "next", h |-> trav.h, item |-> 0]
           /\ ret' = r.item
    /\ UNCHANGED <<heaps, pre, fault>>

\* The traversal is dropped, exhausted or not
DoDrop ==
    /\ ~Idle
    /\ trav' = NoTrav
    /\ op' = [name |-> IF trav.kind = "iter" THEN "drop iter" ELSE "drop drain",
              h |-> trav.h, item |-> 0]
    /\ ret' = None
    /\ UNCHANGED <<heaps, pre, fault>>

----------------------------------------------------------------------------
\* Spec: any interleaving of the calls, the heaps holding at most MaxLen items

ghosts == <<cnt, phase, pushed, popped, loop>>

CallPush(h, x) == TotalLen < MaxLen /\ DoPush(h, x) /\ UNCHANGED ghosts
CallPop(h) == DoPop(h) /\ UNCHANGED ghosts
CallPeek(h) == DoPeek(h) /\ UNCHANGED ghosts
CallAppend(h, g) == DoAppend(h, g) /\ UNCHANGED ghosts
CallPushPop(h, x) == TotalLen < MaxLen /\ DoPushPop(h, x) /\ UNCHANGED ghosts
CallReplace(h, x) ==
    /\ heaps[h].len > 0 \/ TotalLen < MaxLen
    /\ DoReplace(h, x)
    /\ UNCHANGED ghosts
CallClear(h) == DoClear(h) /\ UNCHANGED ghosts
CallDrain(h) == DoDrain(h) /\ UNCHANGED ghosts
CallIter(h) == DoIter(h) /\ UNCHANGED ghosts
CallNext == DoNext /\ UNCHANGED ghosts
CallDrop == DoDrop /\ UNCHANGED ghosts

Next ==
    \/ \E h \in Heaps, x \in Items : CallPush(h, x)
    \/ \E h \in Heaps : CallPop(h)
    \/ \E h \in Heaps : CallPeek(h)
    \/ \E h \in Heaps, g \in Heaps : CallAppend(h, g)
    \/ \E h \in Heaps, x \in Items : CallPushPop(h, x)
    \/ \E h \in Heaps, x \in Items : CallReplace(h, x)
    \/ \E h \in Heaps : CallClear(h)
    \/ \E h \in Heaps : CallDrain(h)
    \/ \E h \in Heaps : CallIter(h)
    \/ CallNext
    \/ CallDrop

Spec == Init /\ [][Next]_vars

----------------------------------------------------------------------------
\* SortSpec: items are pushed onto heap 1, then pop is called until it
\* returns None

SortPush(x) ==
    /\ phase = "push"
    /\ heaps[1].len < MaxSort
    /\ DoPush(1, x)
    /\ pushed' = Plus(pushed, One(x))
    /\ UNCHANGED <<cnt, phase, popped, loop>>

SortTurn ==
    /\ phase = "push"
    /\ phase' = "pop"
    /\ UNCHANGED <<heaps, trav, op, ret, pre, fault, cnt, pushed, popped, loop>>

SortPop ==
    /\ phase = "pop"
    /\ DoPop(1)
    /\ popped' = IF ret' = None THEN popped ELSE popped \o ret'
    /\ phase' = IF ret' = None THEN "done" ELSE "pop"
    /\ UNCHANGED <<cnt, pushed, loop>>

SortNext ==
    \/ \E x \in Items : SortPush(x)
    \/ SortTurn
    \/ SortPop

SortSpec == Init /\ [][SortNext]_vars

----------------------------------------------------------------------------
\* CountSpec: any interleaving of the calls, with the pushes and the pops that
\* returned an item counted per heap, and at most MaxPushes pushes in all

Stored(h) == Size(Content(heaps[h].root))

\* The call on heap h made dPush pushes and dPop successful pops
Counted(h, dPush, dPop) ==
    /\ cnt' = [cnt EXCEPT ![h].pushes = @ + dPush, ![h].pops = @ + dPop]
    /\ UNCHANGED <<phase, pushed, popped, loop>>

\* The call took n stored items out of heap h without popping them
Removed(h, n) ==
    /\ cnt' = [cnt EXCEPT ![h].moved = @ - n]
    /\ UNCHANGED <<phase, pushed, popped, loop>>

Budget == cnt[1].pushes + cnt[2].pushes < MaxPushes

CountPush(h, x) == Budget /\ DoPush(h, x) /\ Counted(h, 1, 0)
CountPop(h) == DoPop(h) /\ Counted(h, 0, IF ret' = None THEN 0 ELSE 1)
CountPushPop(h, x) ==
    Budget /\ DoPushPop(h, x) /\ Counted(h, 1, IF ret' = None THEN 0 ELSE 1)
CountReplace(h, x) ==
    Budget /\ DoReplace(h, x) /\ Counted(h, 1, IF ret' = None THEN 0 ELSE 1)
CountAppend(h, g) ==
    /\ DoAppend(h, g)
    /\ cnt' = [cnt EXCEPT ![h].moved = @ + Stored(g), ![g].moved = @ - Stored(g)]
    /\ UNCHANGED <<phase, pushed, popped, loop>>
CountClear(h) == DoClear(h) /\ Removed(h, Stored(h))
CountDrain(h) == DoDrain(h) /\ Removed(h, Stored(h))
CountDrop == DoDrop /\ UNCHANGED ghosts

CountNext ==
    \/ \E h \in Heaps, x \in Items : CountPush(h, x)
    \/ \E h \in Heaps : CountPop(h)
    \/ \E h \in Heaps, x \in Items : CountPushPop(h, x)
    \/ \E h \in Heaps, x \in Items : CountReplace(h, x)
    \/ \E h \in Heaps, g \in Heaps : CountAppend(h, g)
    \/ \E h \in Heaps : CountClear(h)
    \/ \E h \in Heaps : CountDrain(h)
    \/ CountDrop

CountSpec == Init /\ [][CountNext]_vars

----------------------------------------------------------------------------
\* Properties

\* The greatest item of a multiset, as an Option
MaxOpt(c) == IF Size(c) = 0 THEN None ELSE Some(MaxOf(c))

\* An empty heap, before the last call
WasEmpty(h) == pre[h].len = 0 /\ Size(pre[h].items) = 0

\* C1: pushing any multiset onto an empty heap and then popping until None
\* yields that multiset in descending order: what has been popped so far is
\* the beginning of the multiset sorted in descending order and, once None
\* was returned, all of it; a pop returns None exactly when the heap it is
\* called on is empty.
C1_PushAllPopAll ==
    /\ Len(popped) <= Size(pushed)
    /\ popped = SubSeq(SortDesc(pushed), 1, Len(popped))
    /\ phase = "done" => popped = SortDesc(pushed)
    /\ op.name = "pop" => ((ret = None) <=> WasEmpty(1))
    /\ op.name = "pop" => ((ret = None) <=> (phase = "done"))

\* C1 witness: a run that pushed MaxSort items, equal ones and different ones
\* among them, and popped them all.
C1_Witness ==
    /\ phase = "done"
    /\ Len(popped) = MaxSort
    /\ popped[1] > popped[2]
    /\ popped[2] = popped[3]
    /\ popped[3] > popped[Len(popped)]

\* C2: pop on a non-empty heap returns the greatest item stored and removes
\* one occurrence of it and nothing else.
C2_PopRemovesMax ==
    (op.name = "pop" /\ Size(pre[op.h].items) > 0) =>
        /\ ret = Some(MaxOf(pre[op.h].items))
        /\ Content(heaps[op.h].root) = Minus(pre[op.h].items, One(ret[1]))

\* C2 witness: a pop that removed the root of a tree of order 2, whose two
\* children went back into the root list, from a heap holding its greatest
\* item twice.
C2_Witness ==
    /\ op.name = "pop"
    /\ 2 \in {pre[op.h].orders[i] : i \in DOMAIN pre[op.h].orders}
    /\ pre[op.h].items[MaxItem] = 2
    /\ ret = Some(MaxItem)
    /\ Content(heaps[op.h].root)[MaxItem] = 1
    /\ Stored(op.h) >= 3

\* C3: peek returns the greatest item stored, None exactly for an empty heap,
\* in every heap the calls can build, and a call of peek changes no heap.
C3_PeekIsMax ==
    /\ \A h \in Heaps : heap_peek(heaps[h]) = MaxOpt(Content(heaps[h].root))
    /\ \A h \in Heaps : (heap_peek(heaps[h]) = None) <=> is_empty(heaps[h])
    /\ op.name = "peek" => (ret = MaxOpt(pre[op.h].items) /\ Abs(heaps) = pre)

\* C3 witness: peek returned the greatest item of a heap of three trees whose
\* first root does not hold it.
C3_Witness ==
    /\ op.name = "peek"
    /\ ret = Some(MaxItem)
    /\ Len(Orders(heaps[op.h].root)) >= 3
    /\ heaps[op.h].root[1].item < MaxItem

\* C4 as claimed: len is the number of pushes minus the number of pops that
\* returned an item, whatever calls were made (clear, drain and append too).
C4_LenIsPushesMinusPops ==
    \A h \in Heaps :
        /\ heaps[h].len = Stored(h)
        /\ heaps[h].len = cnt[h].pushes - cnt[h].pops
        /\ heaps[h].len >= 0
        /\ is_empty(heaps[h]) <=> (heap_len(heaps[h]) = 0)

\* C4, amended: len is the number of items stored, which is the pushes minus
\* the pops that returned an item, minus the items clear and drain removed and
\* append moved out, plus the items append moved in; it is never negative and
\* the root is absent exactly when it is zero.
C4_LenIsStored ==
    \A h \in Heaps :
        /\ heaps[h].len = Stored(h)
        /\ heaps[h].len = cnt[h].pushes - cnt[h].pops + cnt[h].moved
        /\ heaps[h].len >= 0
        /\ is_empty(heaps[h]) <=> (heap_len(heaps[h]) = 0)

\* C4 witness: a heap pushed three times and popped once that holds one item.
C4_Witness ==
    \E h \in Heaps :
        /\ cnt[h].pushes = 3
        /\ cnt[h].pops = 1
        /\ cnt[h].moved = -1
        /\ heaps[h].len = 1

\* C5: after A.append(B), A holds the items of both, len(A) is the sum of
\* both lens and B is empty.
C5_AppendUnion ==
    op.name = "append" =>
        \A g \in Heaps \ {op.h} :
            /\ Content(heaps[op.h].root) = Plus(pre[op.h].items, pre[g].items)
            /\ heaps[op.h].len = pre[op.h].len + pre[g].len
            /\ heaps[op.h].len = Stored(op.h)
            /\ heaps[g] = new

\* C5 witness: two heaps of two items each were appended.
C5_Witness ==
    /\ op.name = "append"
    /\ pre[1].len = 2
    /\ pre[2].len = 2
    /\ heaps[op.h].len = 4

\* C6: from the call of drain on, whatever was taken from the Drain, the heap
\* is empty with len 0, and the Drain holds what the heap held: the items
\* taken and the items still in it are the heap's items before the call.
C6_DrainEmpties ==
    /\ op.name = "drain" =>
           (trav.kind = "drain" /\ trav.h = op.h /\ trav.out = ZeroCnt
            /\ trav.src = pre[op.h].items)
    /\ trav.kind = "drain" =>
           /\ is_empty(heaps[trav.h])
           /\ heap_len(heaps[trav.h]) = 0
           /\ Plus(trav.out, Cnt(StackItems(trav.nodes))) = trav.src
    /\ op.name = "drop drain" =>
           (is_empty(heaps[op.h]) /\ heap_len(heaps[op.h]) = 0)

\* C6 witness: two of the four items of a drained heap were taken.
C6_Witness ==
    /\ trav.kind = "drain"
    /\ Size(trav.src) = 4
    /\ Size(trav.out) = 2
    /\ is_empty(heaps[trav.h])

\* C7: a traversal yields no item more often than the heap held it, and when
\* next returns None it has yielded the heap's items, len() of them; the heap
\* an Iter borrows still holds them.
C7_TraversalYieldsAll ==
    /\ \A i \in Items : trav.out[i] <= trav.src[i]
    /\ (op.name = "next" /\ ret = None) =>
           (trav.out = trav.src /\ Size(trav.out) = trav.len0)
    /\ trav.kind = "iter" =>
           (trav.src = Content(heaps[trav.h].root) /\ trav.len0 = heaps[trav.h].len)
    /\ op.name \in {"iter", "drain"} =>
           (trav.src = pre[op.h].items /\ trav.len0 = pre[op.h].len)

\* C7 witness: an Iter over a heap of four items in one tree returned None.
C7_Witness ==
    /\ op.name = "next"
    /\ ret = None
    /\ trav.kind = "iter"
    /\ trav.len0 = 4
    /\ Orders(heaps[trav.h].root) = <<2>>

\* C8: the len of a traversal is the number of items it has still to yield;
\* it is never negative; an exhausted traversal has len 0, and next on it
\* returns None and leaves it as it is.
C8_TraversalLen ==
    trav.kind # "none" =>
        LET self == [nodes |-> trav.nodes, len |-> trav.len] IN
        /\ trav.len = Len(StackItems(trav.nodes))
        /\ trav.len = Size(trav.src) - Size(trav.out)
        /\ trav.len >= 0
        /\ (op.name = "next" /\ ret = None) => (trav.len = 0 /\ trav.nodes = <<>>)
        /\ trav.len = 0 =>
               /\ Iter_next(self) = [iter |-> self, item |-> None]
               /\ IntoIter_next(self) = [iter |-> self, item |-> None]

\* C8 witness: next on a Drain of three items returned None.
C8_Witness ==
    /\ op.name = "next"
    /\ ret = None
    /\ trav.kind = "drain"
    /\ trav.len0 = 3
    /\ trav.len = 0

\* C9: on an empty heap pop and peek return None without a panic and leave
\* the heap empty with len 0; replace(item) returns None and leaves the heap
\* holding that item alone, with len 1.
C9_EmptyHeapCalls ==
    /\ (op.name \in {"pop", "peek"} /\ WasEmpty(op.h)) =>
           (ret = None /\ heaps[op.h] = new /\ fault = "")
    /\ (op.name = "replace" /\ WasEmpty(op.h)) =>
           /\ ret = None
           /\ fault = ""
           /\ Content(heaps[op.h].root) = One(op.item)
           /\ heaps[op.h].len = 1
           /\ heaps[op.h].root = Some(Node(op.item))

\* C9 witness: replace was called on an empty heap.
C9_Witness ==
    /\ op.name = "replace"
    /\ WasEmpty(op.h)
    /\ heaps[op.h].len = 1

\* C10: push_pop never panics with "heap was empty"; it returns the greatest
\* of its item and the items the heap held, leaves len as it was, and leaves
\* in the heap what it held plus the item minus what it returned.
C10_PushPop ==
    /\ fault # "heap was empty"
    /\ op.name = "push_pop" =>
           /\ ret = Some(MaxOf(Plus(pre[op.h].items, One(op.item))))
           /\ heaps[op.h].len = pre[op.h].len
           /\ Content(heaps[op.h].root) =
                  Minus(Plus(pre[op.h].items, One(op.item)), One(ret[1]))

\* C10 witness: push_pop on an empty heap returned its item.
C10_Witness ==
    /\ op.name = "push_pop"
    /\ WasEmpty(op.h)
    /\ ret = Some(op.item)
    /\ heaps[op.h] = new

----------------------------------------------------------------------------
\* ShapeSpec: any interleaving of push, pop and append on the two heaps, which
\* hold at most MaxShape items; only the heaps are recorded

ShapePush(h, x) ==
    /\ TotalLen < MaxShape
    /\ heaps' = [heaps EXCEPT ![h] = heap_push(heaps[h], x)]
    /\ UNCHANGED <<trav, op, ret, pre, fault, cnt, phase, pushed, popped, loop>>

ShapePop(h) ==
    /\ heaps' = [heaps EXCEPT ![h] = heap_pop(heaps[h]).heap]
    /\ UNCHANGED <<trav, op, ret, pre, fault, cnt, phase, pushed, popped, loop>>

ShapeAppend(h, g) ==
    /\ h # g
    /\ LET r == heap_append(heaps[h], heaps[g])
       IN  heaps' = [heaps EXCEPT ![h] = r.self, ![g] = r.other]
    /\ UNCHANGED <<trav, op, ret, pre, fault, cnt, phase, pushed, popped, loop>>

ShapeNext ==
    \/ \E h \in Heaps, x \in Items : ShapePush(h, x)
    \/ \E h \in Heaps : ShapePop(h)
    \/ \E h \in Heaps, g \in Heaps : ShapeAppend(h, g)

ShapeSpec == Init /\ [][ShapeNext]_vars

----------------------------------------------------------------------------
\* FnSpec: coalesce (after merge) and remove_max applied to valid forests.
\* heaps holds the two argument lists, which stay as they are; op names the
\* function applied and ret is what it returned.

RECURSIVE Pow2(_)
Pow2(k) == IF k = 0 THEN 1 ELSE 2 * Pow2(k - 1)

\* The max-heap binomial trees of order k, built as link builds them
RECURSIVE Trees(_)
Trees(k) ==
    IF k = 0 THEN {Node(i) : i \in Items}
    ELSE LET T == Trees(k - 1)
         IN  {link(t[1], t[2]) : t \in {u \in T \X T : u[1].item >= u[2].item}}

\* The root lists of trees of orders k and more, strictly increasing by order,
\* of at most n nodes in all
RECURSIVE Forests(_, _)
Forests(k, n) ==
    IF Pow2(k) > n THEN {None}
    ELSE Forests(k + 1, n) \cup
         {Some([p[1] EXCEPT !.next = p[2]]) :
              p \in Trees(k) \X Forests(k + 1, n - Pow2(k))}

\* A heap holding the root list o
HeapOf(o) == [root |-> o, len |-> Len(Flatten(o))]

FnInit ==
    /\ \E a \in Forests(0, MaxNodes) :
           \E b \in Forests(0, MaxNodes - Len(Flatten(a))) :
               heaps = [h \in Heaps |-> IF h = 1 THEN HeapOf(a) ELSE HeapOf(b)]
    /\ trav = NoTrav
    /\ op = [name |-> "new", h |-> 0, item |-> 0]
    /\ ret = None
    /\ pre = Abs([h \in Heaps |-> new])
    /\ fault = ""
    /\ cnt = [h \in Heaps |-> [pushes |-> 0, pops |-> 0, moved |-> 0]]
    /\ phase = "push"
    /\ pushed = ZeroCnt
    /\ popped = <<>>
    /\ loop = NoLoop

\* merge(a, b); coalesce(a) on the two lists, as append does
FnCoalesce ==
    /\ heaps[1].root # None
    /\ heaps[2].root # None
    /\ op' = [name |-> "coalesce", h |-> 1, item |-> 0]
    /\ ret' = Some(coalesce(merge(heaps[1].root[1], heaps[2].root[1])))
    /\ UNCHANGED <<heaps, trav, pre, fault, cnt, phase, pushed, popped, loop>>

\* remove_max(a) on the first list
FnRemoveMax ==
    /\ heaps[1].root # None
    /\ op' = [name |-> "remove_max", h |-> 1, item |-> 0]
    /\ ret' = remove_max(heaps[1].root)
    /\ UNCHANGED <<heaps, trav, pre, fault, cnt, phase, pushed, popped, loop>>

FnNext == FnCoalesce \/ FnRemoveMax

FnSpec == FnInit /\ [][FnNext]_vars

----------------------------------------------------------------------------
\* Properties of the shape of the forest

\* A sequence of numbers that strictly increases
StrictInc(s) == \A i \in 1..(Len(s) - 1) : s[i] < s[i + 1]

\* The calls that change the content of a heap and return with it rebuilt
Mutations == {"push", "pop", "append", "push_pop", "replace"}

RECURSIVE SumPow2(_)
SumPow2(orders) ==
    IF orders = <<>> THEN 0 ELSE Pow2(Head(orders)) + SumPow2(Tail(orders))

\* floor(log2(n)) for n > 0
RECURSIVE Log2(_)
Log2(n) == IF n <= 1 THEN 0 ELSE 1 + Log2(n \div 2)

\* k-1, k-2, ..., 0
RECURSIVE Down(_)
Down(k) == IF k = 0 THEN <<>> ELSE <<k - 1>> \o Down(k - 1)

\* Every node of the list o and below it is at least as great as each of its
\* descendants
RECURSIVE MaxHeap(_)
MaxHeap(o) ==
    \/ o = None
    \/ LET below == Flatten(o[1].child) IN
       /\ \A i \in DOMAIN below : o[1].item >= below[i]
       /\ MaxHeap(o[1].child)
       /\ MaxHeap(o[1].next)

\* Every node of the list o and below it is the root of a binomial tree of
\* its order
RECURSIVE Binomial(_)
Binomial(o) ==
    \/ o = None
    \/ /\ Orders(o[1].child) = Down(o[1].order)
       /\ Len(Flatten(o[1].child)) + 1 = Pow2(o[1].order)
       /\ Binomial(o[1].child)
       /\ Binomial(o[1].next)

\* C11: after every completed push, pop, append, push_pop and replace the
\* orders of the root list of each heap strictly increase.
C11_RootOrdersIncrease ==
    op.name \in Mutations =>
        \A h \in Heaps : StrictInc(Orders(heaps[h].root))

\* C12: in every reachable state every node of every heap is at least as
\* great as each of its descendants.
C12_MaxHeap == \A h \in Heaps : MaxHeap(heaps[h].root)

\* C12 witness: a tree of order 2 built by links, holding three different
\* items.
C12_Witness ==
    \E h \in Heaps :
        /\ Orders(heaps[h].root) = <<2>>
        /\ heaps[h].root[1].item = MaxItem
        /\ \A i \in Items : Content(heaps[h].root)[i] >= 1

\* C13: in every reachable state every node of order k of every heap has k
\* children of orders k-1, ..., 0 and a subtree of 2^k nodes.
C13_BinomialTrees == \A h \in Heaps : Binomial(heaps[h].root)

\* C13 witness: append linked two trees of order 1 into one tree of order 2,
\* whose children have the orders 1 and 0.
C13_Witness ==
    /\ op.name = "append"
    /\ pre[1].orders = <<1>>
    /\ pre[2].orders = <<1>>
    /\ Orders(heaps[op.h].root) = <<2>>
    /\ Orders(heaps[op.h].root[1].child) = <<1, 0>>

\* C14: in every reachable state len is the sum of 2^order over the root list.
C14_LenIsSumOfPowers ==
    \A h \in Heaps : heaps[h].len = SumPow2(Orders(heaps[h].root))

\* C14 witness: a heap of four items in three trees.
C14_Witness ==
    \E h \in Heaps :
        /\ heaps[h].len = 4
        /\ Orders(heaps[h].root) = <<0, 1, 0>>

\* C19: after any sequence of push, pop and append a heap of n > 0 items has
\* at most floor(log2(n)) + 1 trees in its root list.
C19_RootListIsLogarithmic ==
    \A h \in Heaps :
        heaps[h].len > 0 =>
            Len(Orders(heaps[h].root)) <= Log2(heaps[h].len) + 1


\* The trees of the root list o, head first, each with its next link cleared
RECURSIVE ListNodes(_)
ListNodes(o) ==
    IF o = None THEN <<>>
    ELSE <<[o[1] EXCEPT !.next = None]>> \o ListNodes(o[1].next)

\* The sequence s without its i-th element
Without(s, i) == SubSeq(s, 1, i - 1) \o SubSeq(s, i + 1, Len(s))

\* C15: coalesce applied to the merge of two strictly increasing lists of
\* max-heap trees returns a list of strictly increasing orders that holds the
\* same items; no tree of the order a reaches by a link is left behind it.
C15_CoalesceRestoresOrders ==
    op.name = "coalesce" =>
        /\ StrictInc(Orders(ret))
        /\ Content(ret) =
               Plus(Content(heaps[1].root), Content(heaps[2].root))

\* C16: remove_max returns the root holding the greatest item with its next
\* link cleared and its children as they were, and leaves the other trees in
\* the order they had, so that a strictly increasing list stays one.
C16_RemoveMaxKeepsPositions ==
    op.name = "remove_max" =>
        LET nodes == ListNodes(heaps[1].root) IN
        /\ ret.max # None
        /\ ret.max[1].next = None
        /\ \A i \in DOMAIN nodes : ret.max[1].item >= nodes[i].item
        /\ \E i \in DOMAIN nodes :
               /\ nodes[i] = ret.max[1]
               /\ ListNodes(ret.rest) = Without(nodes, i)
        /\ StrictInc(Orders(ret.rest))

\* The calls merge(a, b) that append(root, other) makes
AppendCalls(root, other) ==
    IF root # None /\ other # None THEN {<<root[1], other[1]>>} ELSE {}

\* The calls merge(a, b) made by a push, an append or a pop called on heap h
\* in the current state
MergeCalls(h) ==
    LET root == heaps[h].root
        r    == remove_max(root)
    IN  UNION {
            UNION {AppendCalls(root, Some(Node(x))) : x \in Items},
            UNION {AppendCalls(root, heaps[g].root) : g \in Heaps \ {h}},
            IF r.max = None THEN {}
            ELSE AppendCalls(r.rest, r.max[1].child) }

\* The calls link(a, b) that coalesce(a) makes, following coalesce's loop
RECURSIVE coalesce_links(_)
coalesce_links(a) ==
    IF a.next = None THEN {}
    ELSE LET b == a.next[1] IN
         IF CaseA(a, b) THEN coalesce_links(b)
         ELSE IF a.item >= b.item THEN
             LET x  == [a EXCEPT !.next = b.next]
                 y  == [b EXCEPT !.next = None]
                 a2 == link(x, y)
             IN  {<<x, y>>} \cup
                 (IF a2.next = None THEN {} ELSE coalesce_links(a2.next[1]))
         ELSE
             LET y == [a EXCEPT !.next = None]
             IN  {<<b, y>>} \cup coalesce_links(link(b, y))

\* link's three debug_assert!s
LinkPre(a, b) ==
    /\ a.order = b.order
    /\ b.next = None
    /\ a.item >= b.item

\* C17: every call of merge made by a push, an append or a pop gets two lists
\* that are strictly increasing by order, the child list that pop hands back
\* included.
C17_MergeArgsIncrease ==
    \A h \in Heaps : \A c \in MergeCalls(h) :
        /\ StrictInc(Orders(Some(c[1])))
        /\ StrictInc(Orders(Some(c[2])))

\* C18: every call of link made by the coalesce of a push, an append or a pop
\* meets link's three asserted preconditions: equal orders, b without a
\* sibling, a.item >= b.item.
C18_LinkPreconditions ==
    \A h \in Heaps : \A c \in MergeCalls(h) :
        \A l \in coalesce_links(merge(c[1], c[2])) : LinkPre(l[1], l[2])

\* A call whose coalesce links at least twice, on a list that is not strictly
\* increasing
C18_Witness ==
    \E h \in Heaps : \E c \in MergeCalls(h) :
        /\ Cardinality(coalesce_links(merge(c[1], c[2]))) >= 2
        /\ ~StrictInc(Orders(Some(c[1])))

----------------------------------------------------------------------------
\* LoopSpec: push, pop and append with the loops of merge, coalesce and
\* remove_max run one iteration at a time.  loop.front holds the nodes the
\* cursor a has passed, loop.a the slot it is at, loop.want the heaps as the
\* call leaves them.

\* The list made of the nodes of front followed by tail
RECURSIVE Rebuild(_, _)
Rebuild(front, tail) ==
    IF front = <<>> THEN tail
    ELSE Some([Head(front) EXCEPT !.next = Rebuild(Tail(front), tail)])

Passed(l, n) == Append(l.front, [n EXCEPT !.next = None])

\* One iteration of merge's loop
merge_step(l) ==
    LET swap == l.a[1].order > l.b[1].order
        a_ == IF swap THEN l.b[1] ELSE l.a[1]
        b_ == IF swap THEN l.a[1] ELSE l.b[1]
    IN  IF a_.next = None
        THEN [l EXCEPT !.pc = "coalesce", !.front = <<>>, !.b = None,
                       !.a = Rebuild(l.front, Some([a_ EXCEPT !.next = Some(b_)])),
                       !.steps = @ + 1]
        ELSE [l EXCEPT !.front = Passed(l, a_), !.a = a_.next, !.b = Some(b_),
                       !.steps = @ + 1]

\* One iteration of coalesce's loop that stays at a_ in Case::A
coalesce_step_stay(l) ==
    LET a == l.a[1]
        return(x) == [l EXCEPT !.pc = "done", !.front = <<>>,
                               !.a = Rebuild(l.front, Some(x)),
                               !.steps = @ + 1]
    IN  IF a.next = None THEN return(a)
        ELSE LET b == a.next[1] IN
             IF CaseA(a, b) THEN l
             ELSE IF a.item >= b.item THEN
                 LET a2 == link([a EXCEPT !.next = b.next],
                                [b EXCEPT !.next = None])
                 IN  IF a2.next = None THEN return(a2)
                     ELSE [l EXCEPT !.front = Passed(l, a2), !.a = a2.next,
                                    !.steps = @ + 1]
             ELSE [l EXCEPT !.a = Some(link(b, [a EXCEPT !.next = None])),
                            !.steps = @ + 1]

\* One iteration of coalesce's loop
coalesce_step(l) ==
    LET a == l.a[1]
        return(x) == [l EXCEPT !.pc = "done", !.front = <<>>,
                               !.a = Rebuild(l.front, Some(x)),
                               !.steps = @ + 1]
    IN  IF a.next = None THEN return(a)
        ELSE LET b == a.next[1] IN
             IF CaseA(a, b) THEN
                 [l EXCEPT !.front = Passed(l, a), !.a = a.next,
                           !.steps = @ + 1]
             ELSE IF a.item >= b.item THEN
                 LET a2 == link([a EXCEPT !.next = b.next],
                                [b EXCEPT !.next = None])
                 IN  IF a2.next = None THEN return(a2)
                     ELSE [l EXCEPT !.front = Passed(l, a2), !.a = a2.next,
                                    !.steps = @ + 1]
             ELSE [l EXCEPT !.a = Some(link(b, [a EXCEPT !.next = None])),
                            !.steps = @ + 1]

\* One iteration of remove_max's loop; at its return pop's closure runs next
remove_step(l) ==
    IF l.a = None
    THEN [l EXCEPT !.pc = "pop", !.front = <<>>,
                   !.a = Rebuild(l.front, None), !.steps = @ + 1]
    ELSE LET b == l.a[1] IN
         IF b.item > l.max[1].item
         THEN [l EXCEPT !.front = Passed(l, l.max[1]), !.a = b.next,
                        !.max = Some([b EXCEPT !.next = None]),
                        !.steps = @ + 1]
         ELSE [l EXCEPT !.front = Passed(l, b), !.a = b.next,
                        !.steps = @ + 1]

\* The body of pop's closure once remove_max has returned max
pop_body(l) ==
    LET child == l.max[1].child IN
    IF l.a = None THEN [l EXCEPT !.pc = "done", !.a = child, !.max = None]
    ELSE IF child = None THEN [l EXCEPT !.pc = "done", !.max = None]
    ELSE [l EXCEPT !.pc = "merge", !.b = child, !.max = None]

\* The running call goes to l, or returns when l.pc is "done"
Goes(l) ==
    /\ IF l.pc = "done"
       THEN /\ heaps' = [loop.want EXCEPT ![l.h].root = l.a]
            /\ loop' = [NoLoop EXCEPT !.steps = l.steps]
       ELSE /\ loop' = l
            /\ UNCHANGED heaps
    /\ UNCHANGED <<trav, op, ret, pre, fault, cnt, phase, pushed, popped>>

\* A call that starts in the loop pc
Starts(pc, h, a, b, max, want) ==
    /\ loop' = [pc |-> pc, h |-> h, front |-> <<>>, a |-> a, b |-> b,
                max |-> max, want |-> want, steps |-> 0]
    /\ UNCHANGED <<heaps, trav, op, ret, pre, fault, cnt, phase, pushed, popped>>

\* A call that runs no loop
Direct(want) ==
    /\ heaps' = want
    /\ loop' = NoLoop
    /\ UNCHANGED <<trav, op, ret, pre, fault, cnt, phase, pushed, popped>>

LoopPush(h, x) ==
    /\ loop.pc = "idle"
    /\ TotalLen < MaxLen
    /\ LET want == [heaps EXCEPT ![h] = heap_push(heaps[h], x)] IN
       IF heaps[h].root = None THEN Direct(want)
       ELSE Starts("merge", h, heaps[h].root, Some(Node(x)), None, want)

LoopAppend(h, g) ==
    /\ loop.pc = "idle"
    /\ h # g
    /\ LET r == heap_append(heaps[h], heaps[g])
           want == [heaps EXCEPT ![h] = r.self, ![g] = r.other]
       IN  IF heaps[h].root = None \/ heaps[g].root = None THEN Direct(want)
           ELSE Starts("merge", h, heaps[h].root, heaps[g].root, None, want)

LoopPop(h) ==
    /\ loop.pc = "idle"
    /\ LET want == [heaps EXCEPT ![h] = heap_pop(heaps[h]).heap]
           root == heaps[h].root
       IN  IF root = None THEN Direct(want)
           ELSE Starts("remove_max", h, root[1].next, None,
                       Some([root[1] EXCEPT !.next = None]), want)

MergeStep == loop.pc = "merge" /\ Goes(merge_step(loop))
CoalesceStep == loop.pc = "coalesce" /\ Goes(coalesce_step(loop))
RemoveStep == loop.pc = "remove_max" /\ Goes(remove_step(loop))
PopBody == loop.pc = "pop" /\ Goes(pop_body(loop))

LoopStep == MergeStep \/ CoalesceStep \/ RemoveStep \/ PopBody

LoopNext ==
    \/ \E h \in Heaps, x \in Items : LoopPush(h, x)
    \/ \E h \in Heaps : LoopPop(h)
    \/ \E h, g \in Heaps : LoopAppend(h, g)
    \/ LoopStep

\* A call that has started keeps running: the program is sequential
LoopSpec == Init /\ [][LoopNext]_vars /\ WF_vars(LoopStep)

\* The iterations leave the heaps as push, pop and append computed at once do
StepsAgree ==
    [][loop.pc # "idle" /\ loop'.pc = "idle" => heaps' = loop.want]_vars

\* C20: every call of push, pop and append returns: once a call is in the
\* loop of merge, coalesce or remove_max, the loops reach their exit, whatever
\* the root list, lists with several trees of one order included.
C20_CallsTerminate == (loop.pc # "idle") ~> (loop.pc = "idle")

\* A call has returned after four iterations or more and left a root list
\* that holds two trees of one order
C20_Witness ==
    /\ loop.pc = "idle"
    /\ loop.steps >= 4
    /\ \E h \in Heaps : ~StrictInc(Orders(heaps[h].root))

=============================================================================
